---- MODULE Spec2Model ----
(***************************************************************************)
(* Model of the LiveKit agent manager (src/server.py) and of the agent     *)
(* entrypoint it dispatches (src/livekit_basic_agent.py).                  *)
(*                                                                         *)
(* The server is an asyncio program: a handler runs without interruption   *)
(* from one await that suspends to the next.  Each action below is one     *)
(* such uninterrupted run of a handler.                                    *)
(***************************************************************************)
EXTENDS Integers, Sequences, FiniteSets, TLC

\* ---------------------------------------------------------------- bounds
\* number of POST /jobs requests a behaviour may issue
MaxReq == 3

\* room names and agent types sent by clients
Rooms == {"r1", "r2"}
AgentTypes == {"tutor"}

\* number of jobs the dispatcher may assign to a worker run on its own
MaxJobs == 3

\* number of events a room's realtime sessions may emit
MaxEvents == 2

\* capacity N of the concurrency gate the design document describes
GateCapacity == 4

EventKinds == {"transcription", "conversation_item"}

Reqs == 1..MaxReq

NoResponse == [status |-> "none"]

VARIABLES
    pc,                 \* position of each create_job invocation
    request,            \* its JobRequest (room_name, agent_type)
    lock,               \* its local variable `lock` (index into locks, 0 = unset)
    lkapi,              \* its LiveKitAPI client: none / open / closed / close_failed
    dispatch,           \* id of the dispatch create_dispatch returned to it (0 = none)
    response,           \* what create_job answered
    active_dispatches,  \* server.py global: room -> tracked dispatch record
    dispatch_locks,     \* server.py global: room -> lock (index into locks)
    locks,              \* the asyncio.Lock objects created so far
    sessions,           \* the runs of entrypoint, indexed by dispatch / job id
    last,               \* answer of the latest DELETE / GET handler
    emitted,            \* per room: events the realtime sessions emitted
    chat_logs           \* per room: content of chat_logs/<room>.txt (absent = no file)

vars == <<pc, request, lock, lkapi, dispatch, response, active_dispatches,
          dispatch_locks, locks, sessions, last, emitted, chat_logs>>

server_vars == <<pc, request, lock, lkapi, dispatch, response, active_dispatches,
                 dispatch_locks, locks, last>>

\* the empty dict
EmptyMap == [x \in {} |-> 0]

NoRequest == [room_name |-> "", agent_type |-> ""]

Init ==
    /\ pc = [r \in Reqs |-> "idle"]
    /\ request = [r \in Reqs |-> NoRequest]
    /\ lock = [r \in Reqs |-> 0]
    /\ lkapi = [r \in Reqs |-> "none"]
    /\ dispatch = [r \in Reqs |-> 0]
    /\ response = [r \in Reqs |-> NoResponse]
    /\ active_dispatches = EmptyMap
    /\ dispatch_locks = EmptyMap
    /\ locks = <<>>
    /\ sessions = <<>>
    /\ last = NoResponse
    /\ emitted = [room \in Rooms |-> <<>>]
    /\ chat_logs = EmptyMap

\* ------------------------------------------------------------ asyncio.Lock
NewLock == [locked |-> FALSE, waiters |-> <<>>]

\* a lock that never makes its caller wait
CanAcquireAlways(lk) == TRUE

\* Lock.acquire takes the lock at once only when it is free and nobody queues
CanAcquire(lk) == ~lk.locked /\ lk.waiters = <<>>

\* get_room_lock without its membership test: a fresh lock on every call
get_room_lock_fresh(room_name) ==
    [dispatch_locks |->
         [room \in DOMAIN dispatch_locks \cup {room_name} |->
             IF room = room_name THEN Len(locks) + 1 ELSE dispatch_locks[room]],
     locks |-> Append(locks, NewLock),
     lock |-> Len(locks) + 1]

\* get_room_lock with one lock for all rooms
get_room_lock_global(room_name) ==
    IF locks = <<>>
    THEN [dispatch_locks |-> dispatch_locks @@ (room_name :> 1),
          locks |-> <<NewLock>>,
          lock |-> 1]
    ELSE [dispatch_locks |->
              [room \in DOMAIN dispatch_locks \cup {room_name} |-> 1],
          locks |-> locks,
          lock |-> 1]

\* get_room_lock: the room's lock, created on first use.  It contains no
\* await, so the test and the insertion are one uninterrupted step.
get_room_lock(room_name) ==
    IF room_name \in DOMAIN dispatch_locks
    THEN [dispatch_locks |-> dispatch_locks,
          locks |-> locks,
          lock |-> dispatch_locks[room_name]]
    ELSE [dispatch_locks |-> dispatch_locks @@ (room_name :> Len(locks) + 1),
          locks |-> Append(locks, NewLock),
          lock |-> Len(locks) + 1]

\* a block that keeps the lock when it is left
AsyncWithExitLeak(lks, l) == lks

\* leaving `async with lock` (by return or by exception): Lock.release
AsyncWithExit(lks, l) == [lks EXCEPT ![l].locked = FALSE]

\* entering `async with lock`: the lock is now held by the caller
AsyncWithEnter(lks, l) == [lks EXCEPT ![l].locked = TRUE]

\* ------------------------------------------------------------- create_job
InCritical(r) == pc[r] \in {"create_dispatch", "aclose"}

HTTP500 == [status |-> "500"]

\* The critical section up to its first await: the client is constructed and
\* create_dispatch is called; a constructor that raises is caught by the
\* except clause, which answers 500 and leaves the `async with` block.
EnterCritical(r, lks, l, ctor_ok) ==
    IF ctor_ok
    THEN /\ locks' = AsyncWithEnter(lks, l)
         /\ pc' = [pc EXCEPT ![r] = "create_dispatch"]
         /\ lkapi' = [lkapi EXCEPT ![r] = "open"]
         /\ response' = response
    ELSE /\ locks' = AsyncWithExit(AsyncWithEnter(lks, l), l)
         /\ pc' = [pc EXCEPT ![r] = "done"]
         /\ lkapi' = lkapi
         /\ response' = [response EXCEPT ![r] = HTTP500]

\* POST /jobs arrives: get_room_lock, then `async with lock` either takes the
\* lock and runs on to create_dispatch, or queues behind the holder.
CreateJob(r, room_name, agent_type) ==
    /\ pc[r] = "idle"
    /\ \A q \in Reqs : q < r => pc[q] # "idle"   \* request r is the r-th to arrive
    /\ LET g == get_room_lock(room_name) IN
        /\ dispatch_locks' = g.dispatch_locks
        /\ lock' = [lock EXCEPT ![r] = g.lock]
        /\ request' = [request EXCEPT ![r] =
                          [room_name |-> room_name, agent_type |-> agent_type]]
        /\ IF CanAcquire(g.locks[g.lock])
           THEN \E ctor_ok \in BOOLEAN : EnterCritical(r, g.locks, g.lock, ctor_ok)
           ELSE /\ locks' = [g.locks EXCEPT ![g.lock].waiters = Append(@, r)]
                /\ pc' = [pc EXCEPT ![r] = "lock_wait"]
                /\ UNCHANGED <<lkapi, response>>
    /\ UNCHANGED <<dispatch, active_dispatches, sessions, last, emitted, chat_logs>>

\* the first waiter of a released lock resumes inside Lock.acquire
LockWakeup(r) ==
    /\ pc[r] = "lock_wait"
    /\ ~locks[lock[r]].locked
    /\ locks[lock[r]].waiters # <<>>
    /\ Head(locks[lock[r]].waiters) = r
    /\ \E ctor_ok \in BOOLEAN :
          EnterCritical(r, [locks EXCEPT ![lock[r]].waiters = Tail(@)], lock[r], ctor_ok)
    /\ UNCHANGED <<request, lock, dispatch, active_dispatches, dispatch_locks,
                   sessions, last, emitted, chat_logs>>

\* -------------------------------------------------------------- entrypoint
\* a run of entrypoint suspended in avatar.start
NewSession(room) ==
    [room |-> room, pc |-> "avatar_start",
     avatar |-> "running", session |-> "none", greeting |-> "none"]

\* create_dispatch returns: the dispatch exists, the worker runs entrypoint
\* for it, and create_job goes on to await lkapi.aclose()
CreateDispatchReturns(r) ==
    /\ pc[r] = "create_dispatch"
    /\ dispatch' = [dispatch EXCEPT ![r] = Len(sessions) + 1]
    /\ sessions' = Append(sessions, NewSession(request[r].room_name))
    /\ pc' = [pc EXCEPT ![r] = "aclose"]
    /\ UNCHANGED <<request, lock, lkapi, response, active_dispatches,
                   dispatch_locks, locks, last, emitted, chat_logs>>

\* an except clause that also drops the room's tracking entry
CreateDispatchRaisesUntracks(r) ==
    /\ pc[r] = "create_dispatch"
    /\ locks' = AsyncWithExit(locks, lock[r])
    /\ pc' = [pc EXCEPT ![r] = "done"]
    /\ response' = [response EXCEPT ![r] = HTTP500]
    /\ active_dispatches' =
          [room \in DOMAIN active_dispatches \ {request[r].room_name} |->
              active_dispatches[room]]
    /\ UNCHANGED <<request, lock, lkapi, dispatch,
                   dispatch_locks, sessions, last, emitted, chat_logs>>

\* create_dispatch raises: except clause, HTTP 500; the client is not closed
CreateDispatchRaises(r) ==
    /\ pc[r] = "create_dispatch"
    /\ locks' = AsyncWithExit(locks, lock[r])
    /\ pc' = [pc EXCEPT ![r] = "done"]
    /\ response' = [response EXCEPT ![r] = HTTP500]
    /\ UNCHANGED <<request, lock, lkapi, dispatch, active_dispatches,
                   dispatch_locks, sessions, last, emitted, chat_logs>>

\* the record create_job stores for a room
TrackedRecord(r) ==
    [agent_type |-> request[r].agent_type, dispatch_id |-> dispatch[r]]

\* active_dispatches[room_name] = record
Track(room_name, record) ==
    [room \in DOMAIN active_dispatches \cup {room_name} |->
        IF room = room_name THEN record ELSE active_dispatches[room]]

\* aclose returns: the dispatch is tracked and create_job answers "started"
AcloseReturns(r) ==
    /\ pc[r] = "aclose"
    /\ lkapi' = [lkapi EXCEPT ![r] = "closed"]
    /\ active_dispatches' = Track(request[r].room_name, TrackedRecord(r))
    /\ response' = [response EXCEPT ![r] =
                       [status |-> "started", dispatch_id |-> dispatch[r]]]
    /\ locks' = AsyncWithExit(locks, lock[r])
    /\ pc' = [pc EXCEPT ![r] = "done"]
    /\ UNCHANGED <<request, lock, dispatch, dispatch_locks, sessions, last,
                   emitted, chat_logs>>

\* aclose raises: except clause, HTTP 500, nothing tracked
AcloseRaises(r) ==
    /\ pc[r] = "aclose"
    /\ lkapi' = [lkapi EXCEPT ![r] = "close_failed"]
    /\ response' = [response EXCEPT ![r] = HTTP500]
    /\ locks' = AsyncWithExit(locks, lock[r])
    /\ pc' = [pc EXCEPT ![r] = "done"]
    /\ UNCHANGED <<request, lock, dispatch, active_dispatches, dispatch_locks,
                   sessions, last, emitted, chat_logs>>

\* ------------------------------------------------- entrypoint, continued
SetSession(s, rec) == sessions' = [sessions EXCEPT ![s] = rec]

\* `await avatar.start(...)` returned: the next statement calls session.start
AfterAvatarStart(sess) ==
    [sess EXCEPT !.avatar = "ok", !.session = "running", !.pc = "session_start"]

\* `await session.start(...)` returned: the next statement calls generate_reply
AfterSessionStart(sess) ==
    [sess EXCEPT !.session = "ok", !.greeting = "running", !.pc = "generate_reply"]

\* `await session.generate_reply(...)` returned: entrypoint returns
AfterGenerateReply(sess) ==
    [sess EXCEPT !.greeting = "ok", !.pc = "returned"]

\* an awaited call raised and the exception is swallowed: entrypoint goes on
RaisedInSwallowed(sess, call) ==
    IF call = "avatar"
    THEN [sess EXCEPT !.avatar = "raised", !.session = "running", !.pc = "session_start"]
    ELSE IF call = "session"
    THEN [sess EXCEPT !.session = "raised", !.greeting = "running", !.pc = "generate_reply"]
    ELSE [sess EXCEPT !.greeting = "raised", !.pc = "returned"]

\* an awaited call raised: entrypoint has no try, the exception leaves it
RaisedIn(sess, call) ==
    [sess EXCEPT ![call] = "raised", !.pc = "raised"]

AvatarStartReturns(s) ==
    /\ sessions[s].pc = "avatar_start"
    /\ SetSession(s, AfterAvatarStart(sessions[s]))
    /\ UNCHANGED <<server_vars, emitted, chat_logs>>

AvatarStartRaises(s) ==
    /\ sessions[s].pc = "avatar_start"
    /\ SetSession(s, RaisedIn(sessions[s], "avatar"))
    /\ UNCHANGED <<server_vars, emitted, chat_logs>>

SessionStartReturns(s) ==
    /\ sessions[s].pc = "session_start"
    /\ SetSession(s, AfterSessionStart(sessions[s]))
    /\ UNCHANGED <<server_vars, emitted, chat_logs>>

SessionStartRaises(s) ==
    /\ sessions[s].pc = "session_start"
    /\ SetSession(s, RaisedIn(sessions[s], "session"))
    /\ UNCHANGED <<server_vars, emitted, chat_logs>>

GenerateReplyReturns(s) ==
    /\ sessions[s].pc = "generate_reply"
    /\ SetSession(s, AfterGenerateReply(sessions[s]))
    /\ UNCHANGED <<server_vars, emitted, chat_logs>>

GenerateReplyRaises(s) ==
    /\ sessions[s].pc = "generate_reply"
    /\ SetSession(s, RaisedIn(sessions[s], "greeting"))
    /\ UNCHANGED <<server_vars, emitted, chat_logs>>

SessionIds == DOMAIN sessions

\* ------------------------------------------------- remove_job and get_job
\* remove_job that answers "removed" but forgets the del statement
remove_job_keep(room_name) ==
    IF room_name \in DOMAIN active_dispatches
    THEN [active_dispatches |-> active_dispatches,
          response |-> [status |-> "removed", room |-> room_name,
                        dispatch_info |-> active_dispatches[room_name]]]
    ELSE [active_dispatches |-> active_dispatches,
          response |-> [status |-> "not_found", room |-> room_name]]

\* DELETE /jobs/{room_name}: no await, one uninterrupted step
remove_job(room_name) ==
    IF room_name \in DOMAIN active_dispatches
    THEN [active_dispatches |->
              [room \in DOMAIN active_dispatches \ {room_name} |->
                  active_dispatches[room]],
          response |-> [status |-> "removed", room |-> room_name,
                        dispatch_info |-> active_dispatches[room_name]]]
    ELSE [active_dispatches |-> active_dispatches,
          response |-> [status |-> "not_found", room |-> room_name]]

\* a remove_job that also forgets the room's lock
RemoveJobDropsLock(room_name) ==
    /\ active_dispatches' = remove_job(room_name).active_dispatches
    /\ last' = remove_job(room_name).response
    /\ dispatch_locks' =
          [room \in DOMAIN dispatch_locks \ {room_name} |-> dispatch_locks[room]]
    /\ UNCHANGED <<pc, request, lock, lkapi, dispatch, response,
                   locks, sessions, emitted, chat_logs>>

RemoveJob(room_name) ==
    /\ active_dispatches' = remove_job(room_name).active_dispatches
    /\ last' = remove_job(room_name).response
    /\ UNCHANGED <<pc, request, lock, lkapi, dispatch, response, dispatch_locks,
                   locks, sessions, emitted, chat_logs>>

\* get_job with its membership test inverted
get_job_inverted(room_name) ==
    IF room_name \notin DOMAIN active_dispatches
    THEN [status |-> "active", room |-> room_name, dispatch |-> NoResponse]
    ELSE [status |-> "404", room |-> room_name]

\* GET /jobs/{room_name}
get_job(room_name) ==
    IF room_name \in DOMAIN active_dispatches
    THEN [status |-> "active", room |-> room_name,
          dispatch |-> active_dispatches[room_name]]
    ELSE [status |-> "404", room |-> room_name]

GetJob(room_name) ==
    /\ last' = get_job(room_name)
    /\ UNCHANGED <<pc, request, lock, lkapi, dispatch, response, active_dispatches,
                   dispatch_locks, locks, sessions, emitted, chat_logs>>

\* ------------------------------------------------------- specifications
\* a step of the server process: one of its handlers runs to its next await
Next ==
    \/ \E r \in Reqs, room_name \in Rooms, agent_type \in AgentTypes :
          CreateJob(r, room_name, agent_type)
    \/ \E r \in Reqs : LockWakeup(r)
    \/ \E r \in Reqs : CreateDispatchReturns(r)
    \/ \E r \in Reqs : CreateDispatchRaises(r)
    \/ \E r \in Reqs : AcloseReturns(r)
    \/ \E r \in Reqs : AcloseRaises(r)
    \/ \E room_name \in Rooms : RemoveJob(room_name)
    \/ \E room_name \in Rooms : GetJob(room_name)

\* the server alone: dispatched sessions exist but their progress, which
\* neither reads nor writes the server's state, is left out
Spec == Init /\ [][Next]_vars

\* create_job together with the runs of entrypoint its dispatches start
NextAgent ==
    \/ \E r \in Reqs, room_name \in Rooms, agent_type \in AgentTypes :
          CreateJob(r, room_name, agent_type)
    \/ \E r \in Reqs : LockWakeup(r)
    \/ \E r \in Reqs : CreateDispatchReturns(r)
    \/ \E r \in Reqs : CreateDispatchRaises(r)
    \/ \E r \in Reqs : AcloseReturns(r)
    \/ \E r \in Reqs : AcloseRaises(r)
    \/ \E s \in SessionIds : AvatarStartReturns(s)
    \/ \E s \in SessionIds : AvatarStartRaises(s)
    \/ \E s \in SessionIds : SessionStartReturns(s)
    \/ \E s \in SessionIds : SessionStartRaises(s)
    \/ \E s \in SessionIds : GenerateReplyReturns(s)
    \/ \E s \in SessionIds : GenerateReplyRaises(s)

SpecAgent == Init /\ [][NextAgent]_vars

\* ------------------------------------------- the worker run on its own
\* `agents.cli.run_app(WorkerOptions(entrypoint_fnc=entrypoint))`: the
\* dispatcher assigns the worker a job for a room and entrypoint runs for it
JobAssigned(room, limit) ==
    /\ Len(sessions) < limit
    /\ sessions' = Append(sessions, NewSession(room))
    /\ UNCHANGED <<server_vars, emitted, chat_logs>>

\* The started AgentSession emits a transcription or conversation-item
\* event.  entrypoint registers no handler on the session, so nothing runs.
EmitEvent(s, kind) ==
    /\ sessions[s].session = "ok"
    /\ Len(emitted[sessions[s].room]) < MaxEvents
    /\ emitted' = [emitted EXCEPT ![sessions[s].room] =
                      Append(@, [kind |-> kind, session |-> s])]
    /\ UNCHANGED <<server_vars, sessions, chat_logs>>

\* GET /logs/{room_name}: the file chat_logs/<room_name>.txt, or 404
get_chat_log(room_name) ==
    IF room_name \in DOMAIN chat_logs
    THEN [status |-> "200", room |-> room_name, file |-> chat_logs[room_name]]
    ELSE [status |-> "404", room |-> room_name]

GetChatLog(room_name) ==
    /\ last' = get_chat_log(room_name)
    /\ UNCHANGED <<pc, request, lock, lkapi, dispatch, response, active_dispatches,
                   dispatch_locks, locks, sessions, emitted, chat_logs>>

NextWorker ==
    \/ \E room \in Rooms : JobAssigned(room, MaxJobs)
    \/ \E s \in SessionIds : AvatarStartReturns(s)
    \/ \E s \in SessionIds : AvatarStartRaises(s)
    \/ \E s \in SessionIds : SessionStartReturns(s)
    \/ \E s \in SessionIds : SessionStartRaises(s)
    \/ \E s \in SessionIds : GenerateReplyReturns(s)
    \/ \E s \in SessionIds : GenerateReplyRaises(s)

SpecWorker == Init /\ [][NextWorker]_vars

\* the worker under load: one job more than the gate's capacity
NextGate ==
    \/ \E room \in Rooms : JobAssigned(room, GateCapacity + 1)
    \/ \E s \in SessionIds : AvatarStartReturns(s)
    \/ \E s \in SessionIds : AvatarStartRaises(s)
    \/ \E s \in SessionIds : SessionStartReturns(s)
    \/ \E s \in SessionIds : SessionStartRaises(s)
    \/ \E s \in SessionIds : GenerateReplyReturns(s)
    \/ \E s \in SessionIds : GenerateReplyRaises(s)

SpecGate == Init /\ [][NextGate]_vars

\* the worker, the events of its sessions and the log endpoint
NextLog ==
    \/ \E room \in Rooms : JobAssigned(room, MaxJobs)
    \/ \E s \in SessionIds : AvatarStartReturns(s)
    \/ \E s \in SessionIds : AvatarStartRaises(s)
    \/ \E s \in SessionIds : SessionStartReturns(s)
    \/ \E s \in SessionIds : SessionStartRaises(s)
    \/ \E s \in SessionIds : GenerateReplyReturns(s)
    \/ \E s \in SessionIds : GenerateReplyRaises(s)
    \/ \E s \in SessionIds, kind \in EventKinds : EmitEvent(s, kind)
    \/ \E room_name \in Rooms : GetChatLog(room_name)

\* every step that can be taken is eventually taken
FairLog == Init /\ [][NextLog]_vars /\ WF_vars(NextLog)

\* An awaited external call returns or raises, and the event loop resumes a
\* task that is ready: a create_job that can take a step eventually does.
RequestStep(r) ==
    \/ LockWakeup(r)
    \/ CreateDispatchReturns(r)
    \/ CreateDispatchRaises(r)
    \/ AcloseReturns(r)
    \/ AcloseRaises(r)

\* create_job alone: remove_job and the GET handlers touch neither the locks
\* nor a create_job's position
NextCreateJob ==
    \/ \E r \in Reqs, room_name \in Rooms, agent_type \in AgentTypes :
          CreateJob(r, room_name, agent_type)
    \/ \E r \in Reqs : LockWakeup(r)
    \/ \E r \in Reqs : CreateDispatchReturns(r)
    \/ \E r \in Reqs : CreateDispatchRaises(r)
    \/ \E r \in Reqs : AcloseReturns(r)
    \/ \E r \in Reqs : AcloseRaises(r)

FairSpec == Init /\ [][NextCreateJob]_vars /\ \A r \in Reqs : WF_vars(RequestStep(r))

\* ------------------------------------------------- the other GET handlers
\* GET /jobs
list_jobs ==
    [status |-> "200",
     active_dispatches |-> active_dispatches,
     count |-> Cardinality(DOMAIN active_dispatches),
     rooms |-> DOMAIN active_dispatches]

ListJobs ==
    /\ last' = list_jobs
    /\ UNCHANGED <<pc, request, lock, lkapi, dispatch, response, active_dispatches,
                   dispatch_locks, locks, sessions, emitted, chat_logs>>

\* GET /health
health_check ==
    [status |-> "healthy",
     active_dispatches |-> Cardinality(DOMAIN active_dispatches)]

HealthCheck ==
    /\ last' = health_check
    /\ UNCHANGED <<pc, request, lock, lkapi, dispatch, response, active_dispatches,
                   dispatch_locks, locks, sessions, emitted, chat_logs>>

\* the server with every handler of the app
NextHandlers ==
    \/ \E r \in Reqs, room_name \in Rooms, agent_type \in AgentTypes :
          CreateJob(r, room_name, agent_type)
    \/ \E r \in Reqs : LockWakeup(r)
    \/ \E r \in Reqs : CreateDispatchReturns(r)
    \/ \E r \in Reqs : CreateDispatchRaises(r)
    \/ \E r \in Reqs : AcloseReturns(r)
    \/ \E r \in Reqs : AcloseRaises(r)
    \/ \E room_name \in Rooms : RemoveJob(room_name)
    \/ \E room_name \in Rooms : GetJob(room_name)
    \/ \E room_name \in Rooms : GetChatLog(room_name)
    \/ ListJobs
    \/ HealthCheck

SpecHandlers == Init /\ [][NextHandlers]_vars

\* ------------------------------------------------------------------ claims
Tracked(room) == room \in DOMAIN active_dispatches

Started(r) == response[r].status = "started"

\* C1 (single admission): while a room is admitted, that is from a create_job
\* that answered "started" for it until remove_job releases it, no other
\* create_job for that room creates a dispatch or answers "started".
C1_SingleAdmission ==
    [][\A r \in Reqs :
          (pc[r] # "idle" /\ Tracked(request[r].room_name))
              => /\ dispatch'[r] = dispatch[r]
                 /\ Started(r)' => Started(r)]_vars

\* C2 (mutual exclusion): in every reachable state at most one create_job per
\* room is inside the `async with lock` block.
C2_MutualExclusion ==
    \A r1, r2 \in Reqs :
        (/\ InCritical(r1)
         /\ InCritical(r2)
         /\ request[r1].room_name = request[r2].room_name) => r1 = r2

\* C2 witness: one request inside the block, another for the same room queued
C2_Witness ==
    \E r1, r2 \in Reqs :
        /\ pc[r1] = "aclose"
        /\ pc[r2] = "lock_wait"
        /\ request[r1].room_name = request[r2].room_name

\* C3 (one agent per room): for every room at most one run of entrypoint is
\* starting or active at a time.
Live(s) == sessions[s].pc \in {"avatar_start", "session_start", "generate_reply", "returned"}

C3_OneAgentPerRoom ==
    \A s1, s2 \in SessionIds :
        (Live(s1) /\ Live(s2) /\ sessions[s1].room = sessions[s2].room) => s1 = s2

\* C4 (no wedged room): a lock is held only while a create_job is inside its
\* block, a queued create_job eventually gets past the lock, and every
\* create_job that arrived eventually answers.
LockHeldOnlyInside ==
    \A l \in DOMAIN locks :
        locks[l].locked => \E r \in Reqs : InCritical(r) /\ lock[r] = l

C4_NeverWedged ==
    /\ []LockHeldOnlyInside
    /\ \A r \in Reqs : (pc[r] = "lock_wait") ~> (pc[r] \in {"create_dispatch", "done"})
    /\ \A r \in Reqs : (pc[r] # "idle") ~> (pc[r] = "done")

\* C4 witness: a create_job whose create_dispatch raised has answered 500
\* while another create_job for the same room, which queued behind it, is
\* inside the block
C4_Witness ==
    \E r1, r2 \in Reqs :
        /\ r1 < r2
        /\ lock[r1] = lock[r2]
        /\ pc[r1] = "done" /\ response[r1] = HTTP500 /\ lkapi[r1] = "open"
        /\ pc[r2] = "create_dispatch"
        /\ \A q \in Reqs : q > r2 => pc[q] = "idle"

\* C5 (start-up failure cleanup): once a run of entrypoint has failed during
\* start-up and the create_job that dispatched it has answered, nothing of
\* the failed session is left: no tracking entry for its dispatch and no
\* started avatar or realtime session.
TrackedAs(s) ==
    /\ Tracked(sessions[s].room)
    /\ active_dispatches[sessions[s].room].dispatch_id = s

C5_StartupFailureCleanedUp ==
    \A s \in SessionIds :
        (/\ sessions[s].pc = "raised"
         /\ \E r \in Reqs : dispatch[r] = s /\ pc[r] = "done")
            => /\ ~TrackedAs(s)
               /\ sessions[s].avatar # "ok"
               /\ sessions[s].session # "ok"

\* C6 (gate capacity): at most GateCapacity calls of generate_reply are in
\* flight at a time, over all rooms.
InFlight == {s \in SessionIds : sessions[s].greeting = "running"}

C6_GateCapacity == Cardinality(InFlight) <= GateCapacity

\* C7 (idempotent release): a remove_job call for a tracked room answers
\* "removed" with the stored record and deletes exactly that entry; a call for
\* an untracked room answers "not_found" and changes nothing; after either the
\* room is untracked, so of any run of calls only the first removes.
C7_RemoveIdempotent ==
    [][\A room \in Rooms :
          RemoveJob(room) =>
              /\ ~Tracked(room)'
              /\ IF Tracked(room)
                 THEN /\ last' = [status |-> "removed", room |-> room,
                                  dispatch_info |-> active_dispatches[room]]
                      /\ DOMAIN active_dispatches' = DOMAIN active_dispatches \ {room}
                      /\ \A other \in DOMAIN active_dispatches' :
                            active_dispatches'[other] = active_dispatches[other]
                 ELSE /\ last' = [status |-> "not_found", room |-> room]
                      /\ active_dispatches' = active_dispatches]_vars

\* C7 witness: a room that was tracked and removed, and a further remove_job
\* for it that answered "not_found"
C7_Witness ==
    \E r \in Reqs :
        /\ Started(r)
        /\ ~Tracked(request[r].room_name)
        /\ last = [status |-> "not_found", room |-> request[r].room_name]
        /\ \A q \in Reqs : q # r => pc[q] = "idle"

\* C9 (get_job): get_job answers "active" with the stored record exactly when
\* the room is tracked, 404 otherwise, and changes neither registry.
C9_GetJob ==
    [][\A room \in Rooms :
          GetJob(room) =>
              /\ Tracked(room) =>
                    last' = [status |-> "active", room |-> room,
                             dispatch |-> active_dispatches[room]]
              /\ ~Tracked(room) => last' = [status |-> "404", room |-> room]
              /\ active_dispatches' = active_dispatches
              /\ dispatch_locks' = dispatch_locks
              /\ locks' = locks]_vars

\* C9 witness: get_job has answered for a tracked room
C9_Witness ==
    /\ last.status = "active"
    /\ Tracked(last.room)
    /\ last.dispatch = active_dispatches[last.room]

\* C10 (start-up ordering): session.start is called only after avatar.start
\* returned, generate_reply only after session.start returned, and after a
\* call raised no later call is made.
C10_StartupOrdering ==
    \A s \in SessionIds :
        /\ sessions[s].session # "none" => sessions[s].avatar = "ok"
        /\ sessions[s].greeting # "none" => sessions[s].session = "ok"
        /\ sessions[s].avatar = "raised" =>
              sessions[s].session = "none" /\ sessions[s].greeting = "none"
        /\ sessions[s].session = "raised" => sessions[s].greeting = "none"

\* C10 witness: one run has reached its greeting, another stopped at a
\* session.start that raised
C10_Witness ==
    \E s1, s2 \in SessionIds :
        /\ sessions[s1].greeting = "running"
        /\ sessions[s2].session = "raised" /\ sessions[s2].pc = "raised"

\* C8 (no log record lost): every event a room's sessions emit is eventually
\* in the room's log file, in the order of emission.
Written(room) == IF room \in DOMAIN chat_logs THEN chat_logs[room] ELSE <<>>

C8_NoRecordLost ==
    \A room \in Rooms : \A n \in 1..MaxEvents :
        (Len(emitted[room]) >= n)
            ~> (/\ Len(Written(room)) >= n
                /\ SubSeq(Written(room), 1, n) = SubSeq(emitted[room], 1, n))

\* C11 (tracking matches the latest dispatch): whenever a room is tracked and
\* no create_job for it is inside the `async with lock` block, the tracked
\* dispatch_id is the id of the dispatch created last among the dispatches of
\* the create_job calls that answered "started" for that room.
StartedDispatches(room) ==
    {dispatch[r] : r \in {q \in Reqs : Started(q) /\ request[q].room_name = room}}

C11_TrackingIsLatest ==
    \A room \in Rooms :
        (/\ Tracked(room)
         /\ \A r \in Reqs : InCritical(r) => request[r].room_name # room)
            => /\ active_dispatches[room].dispatch_id \in StartedDispatches(room)
               /\ \A d \in StartedDispatches(room) :
                     d <= active_dispatches[room].dispatch_id

\* C11 witness: two create_job calls for one room have answered "started",
\* none is inside the block, and the room tracks the later dispatch
C11_Witness ==
    \E r1, r2 \in Reqs :
        /\ r1 < r2
        /\ Started(r1) /\ Started(r2)
        /\ request[r1].room_name = request[r2].room_name
        /\ dispatch[r1] < dispatch[r2]
        /\ Tracked(request[r2].room_name)
        /\ active_dispatches[request[r2].room_name].dispatch_id = dispatch[r2]
        /\ \A q \in Reqs : ~InCritical(q)

\* C12 (failed dispatch leaves tracking untouched): a step in which a
\* create_job leaves its try block by an exception (its client was never
\* closed) answers 500 and leaves active_dispatches as it was.
RaisesInTry(r) ==
    /\ pc[r] # "done"
    /\ pc'[r] = "done"
    /\ lkapi'[r] # "closed"

C12_FailureLeavesTracking ==
    [][\A r \in Reqs :
          RaisesInTry(r) =>
              /\ response'[r] = HTTP500
              /\ active_dispatches' = active_dispatches]_vars

\* C12 witness: create_dispatch raised for a room that an earlier dispatch
\* tracks; the request answered 500 and the earlier entry is still there
C12_Witness ==
    \E r1, r2 \in Reqs :
        /\ r1 < r2
        /\ request[r1].room_name = request[r2].room_name
        /\ Started(r1)
        /\ pc[r2] = "done" /\ response[r2] = HTTP500 /\ lkapi[r2] = "open"
        /\ Tracked(request[r2].room_name)
        /\ active_dispatches[request[r2].room_name] = TrackedRecord(r1)

\* C13 (lock identity is stable): no step removes or replaces an entry of
\* dispatch_locks, and the lock every create_job got from get_room_lock is
\* the one dispatch_locks holds for its room, so all create_job calls for a
\* room share one lock.
LockOfRoom(r) ==
    /\ request[r].room_name \in DOMAIN dispatch_locks
    /\ lock[r] = dispatch_locks[request[r].room_name]

LocksAreRoomLocks == \A r \in Reqs : pc[r] # "idle" => LockOfRoom(r)

C13_LockIdentityStable ==
    /\ []LocksAreRoomLocks
    /\ [][\A room \in DOMAIN dispatch_locks :
             /\ room \in DOMAIN dispatch_locks'
             /\ dispatch_locks'[room] = dispatch_locks[room]]_vars

\* C13 witness: two create_job calls for one room hold the same lock, the
\* second having called get_room_lock while the first was inside the block,
\* and a remove_job for that room has since removed its tracking entry
C13_Witness ==
    \E r1, r2 \in Reqs :
        /\ r1 < r2
        /\ request[r1].room_name = request[r2].room_name
        /\ Started(r1)
        /\ pc[r2] = "create_dispatch"
        /\ lock[r1] = lock[r2]
        /\ last.status = "removed" /\ last.room = request[r1].room_name
        /\ dispatch_locks[request[r1].room_name] = lock[r1]

\* C14 (rooms do not block each other): a create_job has to wait for its lock
\* only when another create_job for the same room is inside the block or
\* already queued for it; a create_job for a different room never makes it
\* wait.
InFlightFor(q, room) ==
    /\ pc[q] \in {"lock_wait", "create_dispatch", "aclose"}
    /\ request[q].room_name = room

C14_RoomsIndependent ==
    [][\A r \in Reqs :
          (pc[r] = "idle" /\ pc'[r] = "lock_wait")
              => \E q \in Reqs \ {r} : InFlightFor(q, request'[r].room_name)]_vars

\* C14 witness: a create_job for one room has answered "started" although a
\* create_job for another room, which arrived before it, is still awaiting
\* create_dispatch
C14_Witness ==
    \E rA, rB \in Reqs :
        /\ rB < rA
        /\ request[rA].room_name # request[rB].room_name
        /\ pc[rB] = "create_dispatch"
        /\ pc[rA] = "done" /\ Started(rA)
        /\ \A q \in Reqs \ {rA, rB} : pc[q] = "idle"

\* C15 (client closed): a create_job that has answered has called aclose on
\* the client it opened.
C15_ClientClosed ==
    \A r \in Reqs : pc[r] = "done" => lkapi[r] # "open"

====
